---------------------------- MODULE Spec2Model ----------------------------
(***************************************************************************)
(* Model of src/cli/mbimcli-phonebook.c: the phonebook actions of mbimcli. *)
(*                                                                         *)
(* The process parses its command line into the seven option variables,    *)
(* asks mbimcli_phonebook_options_enabled whether an action was requested, *)
(* and calls mbimcli_phonebook_run, which submits one MBIM request.  The   *)
(* transport later invokes the registered completion callback, which       *)
(* decodes the response, prints, and finalizes through shutdown().         *)
(*                                                                         *)
(* C strings are sequences of one-character strings; a gchar* that may be  *)
(* NULL is a sequence of length 0 (NULL) or 1 (the string it points to).   *)
(***************************************************************************)
EXTENDS Integers, Sequences, FiniteSets, TLC

(***************************************************************************)
(* Bounds of the model                                                     *)
(***************************************************************************)
\* indexes given to --phonebook-read / --phonebook-delete range over -1..MaxIndex
MaxIndex == 1
\* mbimcli_phonebook_options_enabled is called at most this many times
MaxEnabledCalls == 2
\* longest input string handed to phonebook_write_input_parse in SpecParse
MaxLen == 4
\* most entries a read response carries
MaxEntries == 2

(***************************************************************************)
(* Values                                                                  *)
(***************************************************************************)
NULL == <<>>
Ptr(s) == <<s>>
Deref(p) == p[1]

\* the characters input strings are made of
Alphabet == {"a", "1", ","}

\* the payloads given to --phonebook-write / --phonebook-entry-update
Payloads ==
    { <<>>,
      <<"a">>,
      <<"a", ",", "1">>,
      <<",">>,
      <<"a", ",", "1", ",", "1">>,
      <<"a", ",", "1", ",", "a">>,
      <<",", ",">>,
      <<"a", ",", "1", ",", "1", ",", "1">> }

IndexValues == (0 - 1) .. MaxIndex

OptionNames ==
    { "phonebook-query-configuration", "phonebook-read", "phonebook-read-all",
      "phonebook-write", "phonebook-entry-update", "phonebook-delete",
      "phonebook-delete-all" }

\* reference-counted GObjects: the device, the caller's cancellation token,
\* and whatever a stale non-NULL pointer read from uninitialized memory names
Objects == {"device", "token", "stale"}

\* the MbimPhonebookEntry values a read response is made of
PhonebookEntries ==
    { [entry_index |-> 1, number |-> "555-1000", name |-> "Alice"],
      [entry_index |-> 2, number |-> "555-2000", name |-> "Bob"] }

\* the entry arrays mbim_message_phonebook_read_response_parse can give
RECURSIVE EntryArraysUpTo(_)
EntryArraysUpTo(n) ==
    IF n = 0 THEN { <<>> }
    ELSE LET shorter == EntryArraysUpTo(n - 1)
         IN  shorter \cup { Append(a, e) : a \in { b \in shorter : Len(b) = n - 1 },
                                          e \in PhonebookEntries }

RECURSIVE StringsUpTo(_)
StringsUpTo(n) ==
    IF n = 0 THEN { <<>> }
    ELSE LET shorter == StringsUpTo(n - 1)
         IN  shorter \cup { Append(s, c) : s \in { t \in shorter : Len(t) = n - 1 }, c \in Alphabet }

(***************************************************************************)
(* Library functions the module calls                                      *)
(***************************************************************************)
\* C truth value of a gboolean / pointer / integer used in an arithmetic sum
Truth(b) == IF b THEN 1 ELSE 0

RECURSIVE SplitFrom(_, _)
SplitFrom(s, cur) ==
    IF s = <<>> THEN << cur >>
    ELSE IF Head(s) = "," THEN << cur >> \o SplitFrom(Tail(s), <<>>)
    ELSE SplitFrom(Tail(s), Append(cur, Head(s)))

\* g_strsplit (str, ",", -1): the vector of tokens; the empty string splits
\* into the empty vector
g_strsplit(str) == IF str = <<>> THEN <<>> ELSE SplitFrom(str, <<>>)

DigitValue(c) ==
    CASE c = "0" -> 0 [] c = "1" -> 1 [] c = "2" -> 2 [] c = "3" -> 3
      [] c = "4" -> 4 [] c = "5" -> 5 [] c = "6" -> 6 [] c = "7" -> 7
      [] c = "8" -> 8 [] c = "9" -> 9 [] OTHER -> 0 - 1

RECURSIVE Digits(_, _)
Digits(s, acc) ==
    IF s = <<>> \/ DigitValue(Head(s)) < 0 THEN acc
    ELSE Digits(Tail(s), 10 * acc + DigitValue(Head(s)))

RECURSIVE SkipSpace(_)
SkipSpace(s) == IF s # <<>> /\ Head(s) = " " THEN SkipSpace(Tail(s)) ELSE s

\* atoi (str): optional blanks, optional sign, then the leading digits
atoi(str) ==
    LET s == SkipSpace(str)
    IN  IF s # <<>> /\ Head(s) = "-" THEN 0 - Digits(Tail(s), 0)
        ELSE IF s # <<>> /\ Head(s) = "+" THEN Digits(Tail(s), 0)
        ELSE Digits(s, 0)

(***************************************************************************)
(* phonebook_write_input_parse                                             *)
(***************************************************************************)
\* wrong: the check for missing arguments is left out
phonebook_write_input_parse_no_missing_check(n_expected, str) ==
    LET split == g_strsplit(str)
    IN  IF Len(split) > n_expected
        THEN [ok |-> FALSE, printed |-> "error: couldn't parse input string, too many arguments",
              name |-> NULL, number |-> NULL, index_str |-> NULL]
        ELSE [ok |-> TRUE, printed |-> "",
              name |-> IF Len(split) >= 1 THEN Ptr(split[1]) ELSE NULL,
              number |-> IF Len(split) >= 2 THEN Ptr(split[2]) ELSE NULL,
              index_str |-> IF Len(split) >= 3 THEN Ptr(split[3]) ELSE NULL]

\* wrong: the check for too many arguments is left out
phonebook_write_input_parse_no_too_many_check(n_expected, str) ==
    LET split == g_strsplit(str)
    IN  IF Len(split) < n_expected
        THEN [ok |-> FALSE, printed |-> "error: couldn't parse input string, missing arguments",
              name |-> NULL, number |-> NULL, index_str |-> NULL]
        ELSE [ok |-> TRUE, printed |-> "",
              name |-> Ptr(split[1]),
              number |-> Ptr(split[2]),
              index_str |-> IF Len(split) >= 3 THEN Ptr(split[3]) ELSE NULL]

phonebook_write_input_parse(n_expected, str) ==
    LET split == g_strsplit(str)
    IN  IF Len(split) > n_expected
        THEN [ok |-> FALSE, printed |-> "error: couldn't parse input string, too many arguments",
              name |-> NULL, number |-> NULL, index_str |-> NULL]
        ELSE IF Len(split) < n_expected
        THEN [ok |-> FALSE, printed |-> "error: couldn't parse input string, missing arguments",
              name |-> NULL, number |-> NULL, index_str |-> NULL]
        ELSE [ok |-> TRUE, printed |-> "",
              name |-> Ptr(split[1]),
              number |-> Ptr(split[2]),
              index_str |-> IF Len(split) >= 3 THEN Ptr(split[3]) ELSE NULL]

(***************************************************************************)
(* State                                                                   *)
(***************************************************************************)
VARIABLES
    given,                         \* the options given on the command line
    cancellableArg,                \* the GCancellable the caller passes to run, or NULL
    phonebook_configuration_flag,
    phonebook_read_index,
    phonebook_read_all_flag,
    phonebook_write_str,
    phonebook_entry_update_str,
    phonebook_delete_index,
    phonebook_delete_all_flag,
    n_actions,                     \* static of mbimcli_phonebook_options_enabled
    checked,                       \* static of mbimcli_phonebook_options_enabled
    enabled,                       \* history of the calls of options_enabled
    exited,                        \* exit (EXIT_FAILURE) was called
    ctx,                           \* the static Context pointer and what it points to
    refs,                          \* references this module acquired and released
    msgs,                          \* MBIM messages this module owns
    transport,                     \* calls of mbim_device_command(_finish)
    done,                          \* calls of mbimcli_async_operation_done
    trace,                         \* the observable events, in order
    parse                          \* input and result of a lone parser call

optionVars ==
    << given, cancellableArg, phonebook_configuration_flag, phonebook_read_index,
       phonebook_read_all_flag, phonebook_write_str, phonebook_entry_update_str,
       phonebook_delete_index, phonebook_delete_all_flag >>

selectorVars == << n_actions, checked, enabled, exited >>

runVars == << ctx, refs, msgs, transport, done >>

vars == << optionVars, selectorVars, runVars, trace, parse >>

(***************************************************************************)
(* Initial state: the statics are zero and the option variables are what   *)
(* the option parser stored from the command line.                         *)
(***************************************************************************)
entries(g, readIndex, writeStr, updateStr, deleteIndex) ==
    /\ phonebook_configuration_flag = ("phonebook-query-configuration" \in g)
    /\ phonebook_read_index = IF "phonebook-read" \in g THEN readIndex ELSE 0
    /\ phonebook_read_all_flag = ("phonebook-read-all" \in g)
    /\ phonebook_write_str = IF "phonebook-write" \in g THEN Ptr(writeStr) ELSE NULL
    /\ phonebook_entry_update_str = IF "phonebook-entry-update" \in g THEN Ptr(updateStr) ELSE NULL
    /\ phonebook_delete_index = IF "phonebook-delete" \in g THEN deleteIndex ELSE 0
    /\ phonebook_delete_all_flag = ("phonebook-delete-all" \in g)

Statics ==
    /\ n_actions = 0
    /\ checked = FALSE
    /\ enabled = [calls |-> 0, evaluations |-> 0, first |-> FALSE, last |-> FALSE]
    /\ exited = FALSE
    /\ ctx = [mem |-> "null", device |-> NULL, cancellable |-> NULL]
    /\ refs = [acquired |-> [o \in Objects |-> 0], released |-> [o \in Objects |-> 0]]
    /\ msgs = [request |-> "none", response |-> "none"]
    /\ transport = [commands |-> 0, finishes |-> 0, pending |-> "none",
                    submitted |-> <<>>, result |-> "none", parser |-> "none",
                    parsed |-> "none", entries |-> <<>>]
    /\ done = [calls |-> 0, status |-> FALSE]
    /\ trace = <<>>

Init ==
    /\ given \in SUBSET OptionNames
    /\ cancellableArg \in {NULL, Ptr("token")}
    /\ \E readIndex \in IndexValues, deleteIndex \in IndexValues,
          writeStr \in Payloads, updateStr \in Payloads :
            entries(given, readIndex, writeStr, updateStr, deleteIndex)
    /\ Statics
    /\ parse = [pc |-> "idle"]

(***************************************************************************)
(* mbimcli_phonebook_options_enabled                                       *)
(***************************************************************************)
Returned(value) ==
    [enabled EXCEPT !.calls = @ + 1,
                    !.first = IF enabled.calls = 0 THEN value ELSE @,
                    !.last = value]

\* wrong: the result of the first call is never taken from the statics again
AlreadyChecked_never == FALSE

\* if (checked) return !!n_actions;
AlreadyChecked == checked

\* wrong: --phonebook-delete-all is left out of the sum
mbimcli_phonebook_options_enabled_short_sum ==
    /\ ~exited
    /\ enabled.calls < MaxEnabledCalls
    /\ IF AlreadyChecked
       THEN /\ enabled' = Returned(n_actions # 0)
            /\ UNCHANGED << n_actions, checked, exited, trace >>
       ELSE LET n == Truth(phonebook_configuration_flag) +
                     Truth(phonebook_read_index # 0) +
                     Truth(phonebook_read_all_flag) +
                     Truth(phonebook_write_str # NULL) +
                     Truth(phonebook_entry_update_str # NULL) +
                     Truth(phonebook_delete_index # 0)
            IN  /\ n_actions' = n
                /\ IF n > 1
                   THEN /\ trace' = Append(trace, "stderr: error: too many phonebook actions requested")
                        /\ exited' = TRUE
                        /\ enabled' = [enabled EXCEPT !.calls = @ + 1, !.evaluations = @ + 1]
                        /\ UNCHANGED checked
                   ELSE /\ checked' = TRUE
                        /\ enabled' = [Returned(n # 0) EXCEPT !.evaluations = @ + 1]
                        /\ UNCHANGED << exited, trace >>
    /\ UNCHANGED << optionVars, runVars, parse >>

mbimcli_phonebook_options_enabled ==
    /\ ~exited
    /\ enabled.calls < MaxEnabledCalls
    /\ IF AlreadyChecked
       THEN /\ enabled' = Returned(n_actions # 0)
            /\ UNCHANGED << n_actions, checked, exited, trace >>
       ELSE LET n == Truth(phonebook_configuration_flag) +
                     Truth(phonebook_read_index # 0) +
                     Truth(phonebook_read_all_flag) +
                     Truth(phonebook_write_str # NULL) +
                     Truth(phonebook_entry_update_str # NULL) +
                     Truth(phonebook_delete_index # 0) +
                     Truth(phonebook_delete_all_flag)
            IN  /\ n_actions' = n
                /\ IF n > 1
                   THEN /\ trace' = Append(trace, "stderr: error: too many phonebook actions requested")
                        /\ exited' = TRUE
                        /\ enabled' = [enabled EXCEPT !.calls = @ + 1, !.evaluations = @ + 1]
                        /\ UNCHANGED checked
                   ELSE /\ checked' = TRUE
                        /\ enabled' = [Returned(n # 0) EXCEPT !.evaluations = @ + 1]
                        /\ UNCHANGED << exited, trace >>
    /\ UNCHANGED << optionVars, runVars, parse >>

(***************************************************************************)
(* context_free and shutdown                                               *)
(***************************************************************************)
g_object_unref(r, object) ==
    [r EXCEPT !.released[object] = @ + 1]

\* the context and the reference counts after context_free (context)
context_free(context, r) ==
    IF context.mem = "null"
    THEN [ctx |-> context, refs |-> r]
    ELSE LET r1 == IF context.cancellable # NULL
                   THEN g_object_unref(r, Deref(context.cancellable))
                   ELSE r
             r2 == IF context.device # NULL
                   THEN g_object_unref(r1, Deref(context.device))
                   ELSE r1
         IN  [ctx |-> [context EXCEPT !.mem = "freed"], refs |-> r2]

\* wrong: the status given is not the status reported
shutdown_reports_success(operation_status, context, r, before) ==
    LET freed == context_free(context, r)
    IN  /\ ctx' = freed.ctx
        /\ refs' = freed.refs
        /\ done' = [calls |-> done.calls + 1, status |-> TRUE]
        /\ trace' = trace \o before \o << "context_free", "mbimcli_async_operation_done" >>

\* wrong: the context is freed but the operation is never reported done
shutdown_without_done(operation_status, context, r, before) ==
    LET freed == context_free(context, r)
    IN  /\ ctx' = freed.ctx
        /\ refs' = freed.refs
        /\ done' = done
        /\ trace' = trace \o before \o << "context_free" >>

\* wrong: the operation is reported done before the context is freed
shutdown_done_first(operation_status, context, r, before) ==
    LET freed == context_free(context, r)
    IN  /\ ctx' = freed.ctx
        /\ refs' = freed.refs
        /\ done' = [calls |-> done.calls + 1, status |-> operation_status]
        /\ trace' = trace \o before \o << "mbimcli_async_operation_done", "context_free" >>

\* shutdown (operation_status), entered with the context and the counts given,
\* after the events before were appended to the trace
shutdown(operation_status, context, r, before) ==
    LET freed == context_free(context, r)
    IN  /\ ctx' = freed.ctx
        /\ refs' = freed.refs
        /\ done' = [calls |-> done.calls + 1, status |-> operation_status]
        /\ trace' = trace \o before \o << "context_free", "mbimcli_async_operation_done" >>

(***************************************************************************)
(* mbimcli_phonebook_run                                                   *)
(***************************************************************************)
\* the caller (mbimcli's main) runs the phonebook action once, and only when
\* mbimcli_phonebook_options_enabled returned TRUE
CallerRunsPhonebook ==
    /\ ~exited
    /\ enabled.calls > 0
    /\ enabled.last = TRUE
    /\ ctx.mem = "null"

\* wrong: name and number change places
phonebook_write_request_swapped(in) ==
    [new |-> "mbim_message_phonebook_write_set_new",
     flag |-> "MBIM_PHONEBOOK_WRITE_FLAG_SAVE_UNUSED",
     index |-> 0,
     number |-> in.name,
     name |-> in.number]

\* the request of --phonebook-write
phonebook_write_request(in) ==
    [new |-> "mbim_message_phonebook_write_set_new",
     flag |-> "MBIM_PHONEBOOK_WRITE_FLAG_SAVE_UNUSED",
     index |-> 0,
     number |-> in.number,
     name |-> in.name]

\* wrong: the index is converted from the number field
phonebook_entry_update_request_wrong_field(in) ==
    [new |-> "mbim_message_phonebook_write_set_new",
     flag |-> "MBIM_PHONEBOOK_WRITE_FLAG_SAVE_INDEX",
     index |-> atoi(Deref(in.number)),
     number |-> in.number,
     name |-> in.name]

\* the request of --phonebook-entry-update
phonebook_entry_update_request(in) ==
    [new |-> "mbim_message_phonebook_write_set_new",
     flag |-> "MBIM_PHONEBOOK_WRITE_FLAG_SAVE_INDEX",
     index |-> atoi(Deref(in.index_str)),
     number |-> in.number,
     name |-> in.name]

\* what mbimcli_phonebook_run does after it initialized the context: the first
\* branch whose option variable is set, the request it builds and the
\* callback it registers
RunBranch ==
    IF phonebook_configuration_flag
    THEN [does |-> "command",
          message |-> [new |-> "mbim_message_phonebook_configuration_query_new"],
          callback |-> "query_phonebook_configuration_ready"]
    ELSE IF phonebook_read_index # 0
    THEN [does |-> "command",
          message |-> [new |-> "mbim_message_phonebook_read_query_new",
                       flag |-> "MBIM_PHONEBOOK_FLAG_INDEX",
                       index |-> phonebook_read_index],
          callback |-> "query_phonebook_read_ready"]
    ELSE IF phonebook_read_all_flag
    THEN [does |-> "command",
          message |-> [new |-> "mbim_message_phonebook_read_query_new",
                       flag |-> "MBIM_PHONEBOOK_FLAG_ALL",
                       index |-> 0],
          callback |-> "query_phonebook_read_ready"]
    ELSE IF phonebook_delete_index # 0
    THEN [does |-> "command",
          message |-> [new |-> "mbim_message_phonebook_delete_set_new",
                       flag |-> "MBIM_PHONEBOOK_FLAG_INDEX",
                       index |-> phonebook_delete_index],
          callback |-> "set_phonebook_delete_ready"]
    ELSE IF phonebook_delete_all_flag
    THEN [does |-> "command",
          message |-> [new |-> "mbim_message_phonebook_delete_set_new",
                       flag |-> "MBIM_PHONEBOOK_FLAG_ALL",
                       index |-> 0],
          callback |-> "set_phonebook_delete_ready"]
    ELSE IF phonebook_write_str # NULL
    THEN LET in == phonebook_write_input_parse(2, Deref(phonebook_write_str))
         IN  IF ~in.ok
             THEN [does |-> "shutdown", printed |-> in.printed]
             ELSE [does |-> "command",
                   message |-> phonebook_write_request(in),
                   callback |-> "set_phonebook_write_ready"]
    ELSE IF phonebook_entry_update_str # NULL
    THEN LET in == phonebook_write_input_parse(3, Deref(phonebook_entry_update_str))
         IN  IF ~in.ok
             THEN [does |-> "shutdown", printed |-> in.printed]
             ELSE [does |-> "command",
                   message |-> phonebook_entry_update_request(in),
                   callback |-> "set_phonebook_write_ready"]
    ELSE [does |-> "g_warn_if_reached"]

\* wrong: the request is sent but no completion callback is registered
mbim_device_command_no_callback(device, message, timeout, cancellable, callback) ==
    [transport EXCEPT !.commands = @ + 1,
                      !.submitted = Append(@, [device |-> device,
                                               message |-> message,
                                               timeout |-> timeout,
                                               cancellable |-> cancellable,
                                               callback |-> "none"])]

\* mbim_device_command (device, message, timeout, cancellable, callback, NULL)
mbim_device_command(device, message, timeout, cancellable, callback) ==
    [transport EXCEPT !.commands = @ + 1,
                      !.pending = callback,
                      !.submitted = Append(@, [device |-> device,
                                               message |-> message,
                                               timeout |-> timeout,
                                               cancellable |-> cancellable,
                                               callback |-> callback])]

\* g_slice_new does not clear the Context, and run stores ctx->cancellable only
\* when the caller passed a token: without one the field keeps whatever the
\* memory held, NULL or a stale non-NULL pointer
mbimcli_phonebook_run ==
    /\ CallerRunsPhonebook
    /\ \E uninitialized \in {NULL, Ptr("stale")} :
        LET context == [mem |-> "live",
                        device |-> Ptr("device"),
                        cancellable |-> IF cancellableArg # NULL
                                        THEN cancellableArg
                                        ELSE uninitialized]
            held == [refs EXCEPT !.acquired["device"] = @ + 1,
                                 !.acquired["token"] =
                                     IF cancellableArg # NULL THEN @ + 1 ELSE @]
            branch == RunBranch
        IN  CASE branch.does = "command" ->
                   /\ ctx' = context
                   /\ refs' = held
                   /\ transport' = mbim_device_command(context.device, branch.message, 10,
                                                       context.cancellable, branch.callback)
                   /\ msgs' = [msgs EXCEPT !.request = "released"]
                   /\ trace' = trace \o << "request_new", "mbim_device_command",
                                           "request_unref" >>
                   /\ UNCHANGED done
              [] branch.does = "shutdown" ->
                   /\ shutdown(FALSE, context, held, << "stderr: " \o branch.printed >>)
                   /\ UNCHANGED << transport, msgs >>
              [] OTHER ->
                   /\ ctx' = context
                   /\ refs' = held
                   /\ trace' = Append(trace, "g_warn_if_reached")
                   /\ UNCHANGED << transport, msgs, done >>
    /\ UNCHANGED << optionVars, selectorVars, parse >>

(***************************************************************************)
(* The completion callbacks.  The transport invokes the registered         *)
(* callback once; mbim_device_command_finish gives the response or NULL    *)
(* and an error, and the response decodes or does not.                     *)
(***************************************************************************)
Results == {"error", "response"}

mbim_device_command_finish(result, parser, parsed) ==
    [transport EXCEPT !.finishes = @ + 1,
                      !.pending = "none",
                      !.result = result,
                      !.parser = parser,
                      !.parsed = parsed]

\* wrong: the confirmation is printed before the response is parsed
set_phonebook_write_ready_prints_first ==
    /\ ~exited
    /\ transport.pending = "set_phonebook_write_ready"
    /\ \E result \in Results, decodes \in BOOLEAN :
        IF result = "error"
        THEN /\ transport' = mbim_device_command_finish("error", "none", "none")
             /\ shutdown(FALSE, ctx, refs,
                         << "mbim_device_command_finish", "stderr: error: operation failed" >>)
             /\ UNCHANGED msgs
        ELSE IF ~decodes
        THEN /\ transport' = mbim_device_command_finish("response",
                                 "mbim_message_phonebook_write_response_parse", "error")
             /\ msgs' = [msgs EXCEPT !.response = "owned"]
             /\ shutdown(FALSE, ctx, refs,
                         << "mbim_device_command_finish",
                            "stdout: Phonebook entry successfully written/updated",
                            "stderr: error: couldn't parse response message" >>)
        ELSE /\ transport' = mbim_device_command_finish("response",
                                 "mbim_message_phonebook_write_response_parse", "ok")
             /\ msgs' = [msgs EXCEPT !.response = "released"]
             /\ shutdown(TRUE, ctx, refs,
                         << "mbim_device_command_finish",
                            "stdout: Phonebook entry successfully written/updated",
                            "response_unref" >>)
    /\ UNCHANGED << optionVars, selectorVars, parse >>

set_phonebook_write_ready ==
    /\ ~exited
    /\ transport.pending = "set_phonebook_write_ready"
    /\ \E result \in Results, decodes \in BOOLEAN :
        IF result = "error"
        THEN /\ transport' = mbim_device_command_finish("error", "none", "none")
             /\ shutdown(FALSE, ctx, refs,
                         << "mbim_device_command_finish", "stderr: error: operation failed" >>)
             /\ UNCHANGED msgs
        ELSE IF ~decodes
        THEN /\ transport' = mbim_device_command_finish("response",
                                 "mbim_message_phonebook_write_response_parse", "error")
             /\ msgs' = [msgs EXCEPT !.response = "owned"]
             /\ shutdown(FALSE, ctx, refs,
                         << "mbim_device_command_finish",
                            "stderr: error: couldn't parse response message" >>)
        ELSE /\ transport' = mbim_device_command_finish("response",
                                 "mbim_message_phonebook_write_response_parse", "ok")
             /\ msgs' = [msgs EXCEPT !.response = "released"]
             /\ shutdown(TRUE, ctx, refs,
                         << "mbim_device_command_finish",
                            "stdout: Phonebook entry successfully written/updated",
                            "response_unref" >>)
    /\ UNCHANGED << optionVars, selectorVars, parse >>

\* wrong: the response is decoded with the parser of the write action
set_phonebook_delete_ready_write_parser ==
    /\ ~exited
    /\ transport.pending = "set_phonebook_delete_ready"
    /\ \E result \in Results, decodes \in BOOLEAN :
        IF result = "error"
        THEN /\ transport' = mbim_device_command_finish("error", "none", "none")
             /\ shutdown(FALSE, ctx, refs,
                         << "mbim_device_command_finish", "stderr: error: operation failed" >>)
             /\ UNCHANGED msgs
        ELSE IF ~decodes
        THEN /\ transport' = mbim_device_command_finish("response",
                                 "mbim_message_phonebook_write_response_parse", "error")
             /\ msgs' = [msgs EXCEPT !.response = "owned"]
             /\ shutdown(FALSE, ctx, refs,
                         << "mbim_device_command_finish",
                            "stderr: error: couldn't parse response message" >>)
        ELSE /\ transport' = mbim_device_command_finish("response",
                                 "mbim_message_phonebook_write_response_parse", "ok")
             /\ msgs' = [msgs EXCEPT !.response = "released"]
             /\ shutdown(TRUE, ctx, refs,
                         << "mbim_device_command_finish",
                            "stdout: Phonebook entry/entries successfully deleted",
                            "response_unref" >>)
    /\ UNCHANGED << optionVars, selectorVars, parse >>

set_phonebook_delete_ready ==
    /\ ~exited
    /\ transport.pending = "set_phonebook_delete_ready"
    /\ \E result \in Results, decodes \in BOOLEAN :
        IF result = "error"
        THEN /\ transport' = mbim_device_command_finish("error", "none", "none")
             /\ shutdown(FALSE, ctx, refs,
                         << "mbim_device_command_finish", "stderr: error: operation failed" >>)
             /\ UNCHANGED msgs
        ELSE IF ~decodes
        THEN /\ transport' = mbim_device_command_finish("response",
                                 "mbim_message_phonebook_delete_response_parse", "error")
             /\ msgs' = [msgs EXCEPT !.response = "owned"]
             /\ shutdown(FALSE, ctx, refs,
                         << "mbim_device_command_finish",
                            "stderr: error: couldn't parse response message" >>)
        ELSE /\ transport' = mbim_device_command_finish("response",
                                 "mbim_message_phonebook_delete_response_parse", "ok")
             /\ msgs' = [msgs EXCEPT !.response = "released"]
             /\ shutdown(TRUE, ctx, refs,
                         << "mbim_device_command_finish",
                            "stdout: Phonebook entry/entries successfully deleted",
                            "response_unref" >>)
    /\ UNCHANGED << optionVars, selectorVars, parse >>

\* the line g_print writes for one entry
EntryLine(entry) ==
    "stdout: Entry index : " \o ToString(entry.entry_index) \o
    " Number: " \o entry.number \o " Name: " \o entry.name

\* wrong: the loop starts at the second entry
RECURSIVE PrintEntries_skips_first(_, _, _)
PrintEntries_skips_first(i, entry_count, phonebook_entries) ==
    IF i + 1 < entry_count
    THEN << EntryLine(phonebook_entries[i + 2]) >> \o
         PrintEntries_skips_first(i + 1, entry_count, phonebook_entries)
    ELSE <<>>

\* for (i = 0; i < entry_count; i++) g_print (... phonebook_entries[i] ...);
\* phonebook_entries[i] of the C array is element i + 1 of the sequence
RECURSIVE PrintEntries(_, _, _)
PrintEntries(i, entry_count, phonebook_entries) ==
    IF i < entry_count
    THEN << EntryLine(phonebook_entries[i + 1]) >> \o
         PrintEntries(i + 1, entry_count, phonebook_entries)
    ELSE <<>>

query_phonebook_read_ready ==
    /\ ~exited
    /\ transport.pending = "query_phonebook_read_ready"
    /\ \E result \in Results, decodes \in BOOLEAN, phonebook_entries \in EntryArraysUpTo(MaxEntries) :
        IF result = "error"
        THEN /\ transport' = mbim_device_command_finish("error", "none", "none")
             /\ shutdown(FALSE, ctx, refs,
                         << "mbim_device_command_finish", "stderr: error: operation failed" >>)
             /\ UNCHANGED msgs
        ELSE IF ~decodes
        THEN /\ transport' = mbim_device_command_finish("response",
                                 "mbim_message_phonebook_read_response_parse", "error")
             /\ msgs' = [msgs EXCEPT !.response = "owned"]
             /\ shutdown(FALSE, ctx, refs,
                         << "mbim_device_command_finish",
                            "stderr: error: couldn't parse response message" >>)
        ELSE LET entry_count == Len(phonebook_entries)
             IN  /\ transport' = [mbim_device_command_finish("response",
                                      "mbim_message_phonebook_read_response_parse", "ok")
                                  EXCEPT !.entries = phonebook_entries]
                 /\ msgs' = [msgs EXCEPT !.response = "released"]
                 /\ shutdown(TRUE, ctx, refs,
                             << "mbim_device_command_finish",
                                "stdout: Successfully read phonebook entry/entries",
                                "stdout: Phonebook entries count: " \o ToString(entry_count) >>
                             \o PrintEntries(0, entry_count, phonebook_entries)
                             \o << "response_unref" >>)
    /\ UNCHANGED << optionVars, selectorVars, parse >>

\* wrong: the result of mbim_device_command_finish is not checked, and the
\* parser is handed whatever it returned
query_phonebook_configuration_ready_no_error_check ==
    /\ ~exited
    /\ transport.pending = "query_phonebook_configuration_ready"
    /\ \E result \in Results, decodes \in BOOLEAN :
        IF result = "error" \/ ~decodes
        THEN /\ transport' = mbim_device_command_finish(result,
                                 "mbim_message_phonebook_configuration_response_parse", "error")
             /\ msgs' = [msgs EXCEPT !.response = IF result = "error" THEN @ ELSE "owned"]
             /\ shutdown(FALSE, ctx, refs,
                         << "mbim_device_command_finish",
                            "stderr: error: couldn't parse response message" >>)
        ELSE /\ transport' = mbim_device_command_finish("response",
                                 "mbim_message_phonebook_configuration_response_parse", "ok")
             /\ msgs' = [msgs EXCEPT !.response = "released"]
             /\ shutdown(TRUE, ctx, refs,
                         << "mbim_device_command_finish",
                            "stdout: Phonebook configuration retrived",
                            "response_unref" >>)
    /\ UNCHANGED << optionVars, selectorVars, parse >>

query_phonebook_configuration_ready ==
    /\ ~exited
    /\ transport.pending = "query_phonebook_configuration_ready"
    /\ \E result \in Results, decodes \in BOOLEAN :
        IF result = "error"
        THEN /\ transport' = mbim_device_command_finish("error", "none", "none")
             /\ shutdown(FALSE, ctx, refs,
                         << "mbim_device_command_finish", "stderr: error: operation failed" >>)
             /\ UNCHANGED msgs
        ELSE IF ~decodes
        THEN /\ transport' = mbim_device_command_finish("response",
                                 "mbim_message_phonebook_configuration_response_parse", "error")
             /\ msgs' = [msgs EXCEPT !.response = "owned"]
             /\ shutdown(FALSE, ctx, refs,
                         << "mbim_device_command_finish",
                            "stderr: error: couldn't parse response message" >>)
        ELSE /\ transport' = mbim_device_command_finish("response",
                                 "mbim_message_phonebook_configuration_response_parse", "ok")
             /\ msgs' = [msgs EXCEPT !.response = "released"]
             /\ shutdown(TRUE, ctx, refs,
                         << "mbim_device_command_finish",
                            "stdout: Phonebook configuration retrived",
                            "response_unref" >>)
    /\ UNCHANGED << optionVars, selectorVars, parse >>

(***************************************************************************)
(* The program                                                             *)
(***************************************************************************)
Next ==
    \/ mbimcli_phonebook_options_enabled
    \/ mbimcli_phonebook_run
    \/ set_phonebook_write_ready
    \/ set_phonebook_delete_ready
    \/ query_phonebook_read_ready
    \/ query_phonebook_configuration_ready

Spec == Init /\ [][Next]_vars

\* The caller that was told an action is enabled does call run, and the
\* transport does invoke the callback registered for a submitted request.
FairSpec ==
    /\ Spec
    /\ WF_vars(mbimcli_phonebook_run)
    /\ WF_vars(set_phonebook_write_ready)
    /\ WF_vars(set_phonebook_delete_ready)
    /\ WF_vars(query_phonebook_read_ready)
    /\ WF_vars(query_phonebook_configuration_ready)

(***************************************************************************)
(* phonebook_write_input_parse on its own: every string up to MaxLen, and  *)
(* both field counts the function accepts.                                 *)
(***************************************************************************)
InitParse ==
    /\ given = {}
    /\ cancellableArg = NULL
    /\ entries({}, 0, <<>>, <<>>, 0)
    /\ Statics
    /\ \E n_expected \in {2, 3}, str \in StringsUpTo(MaxLen) :
          parse = [pc |-> "call", n_expected |-> n_expected, str |-> str]

CallParse ==
    /\ parse.pc = "call"
    /\ parse' = [pc |-> "returned", n_expected |-> parse.n_expected, str |-> parse.str,
                 out |-> phonebook_write_input_parse(parse.n_expected, parse.str)]
    /\ UNCHANGED << optionVars, selectorVars, runVars, trace >>

NextParse == CallParse

SpecParse == InitParse /\ [][NextParse]_vars

(***************************************************************************)
(* Vocabulary of the properties                                            *)
(***************************************************************************)
\* an option variable holds a value that run and the selector take as set
OptionSet(option) ==
    CASE option = "phonebook-query-configuration" -> phonebook_configuration_flag
      [] option = "phonebook-read" -> phonebook_read_index # 0
      [] option = "phonebook-read-all" -> phonebook_read_all_flag
      [] option = "phonebook-write" -> phonebook_write_str # NULL
      [] option = "phonebook-entry-update" -> phonebook_entry_update_str # NULL
      [] option = "phonebook-delete" -> phonebook_delete_index # 0
      [] option = "phonebook-delete-all" -> phonebook_delete_all_flag

\* the action of the run is the one of this option
Selected(option) == \A o \in OptionNames : OptionSet(o) <=> o = option

RunCalled == ctx.mem # "null"

\* the positions of the commas of a string, and its fields between them
Commas(str) == { i \in DOMAIN str : str[i] = "," }

FieldCount(str) == Cardinality(Commas(str)) + 1

FieldStart(str, k) ==
    IF k = 1 THEN 1
    ELSE 1 + CHOOSE p \in Commas(str) : Cardinality({ q \in Commas(str) : q < p }) = k - 2

FieldEnd(str, k) ==
    IF k = FieldCount(str) THEN Len(str)
    ELSE (CHOOSE p \in Commas(str) : Cardinality({ q \in Commas(str) : q < p }) = k - 1) - 1

Field(str, k) == SubSeq(str, FieldStart(str, k), FieldEnd(str, k))

EventsAfter(event) ==
    { trace[j] : j \in { j \in DOMAIN trace : \E i \in DOMAIN trace : i < j /\ trace[i] = event } }

(***************************************************************************)
(* Properties                                                              *)
(***************************************************************************)

\* C1: the status passed to mbimcli_async_operation_done is TRUE exactly when
\* mbim_device_command_finish returned a response and the response parser of
\* the action succeeded; it is FALSE on a transport error and on a parse error.
C1_StatusIffResponseParsed ==
    done.calls > 0 =>
        (done.status <=> (transport.result = "response" /\ transport.parsed = "ok"))

C1_Witness_ParseErrorReported ==
    /\ done.calls = 1
    /\ done.status = FALSE
    /\ transport.result = "response"
    /\ transport.parsed = "error"

\* C2: a run submits at most one request, consumes at most one completion and
\* reports done exactly once: when run has returned and no callback is
\* outstanding, done was called once; after done, no request is submitted and
\* done is not called again.
C2_SingleShot ==
    /\ transport.commands <= 1
    /\ transport.finishes <= 1
    /\ done.calls <= 1
    /\ (RunCalled /\ transport.pending = "none") => done.calls = 1
    /\ EventsAfter("mbimcli_async_operation_done") \cap
           { "mbim_device_command", "mbimcli_async_operation_done" } = {}

C2_Witness_CompletedOnce ==
    /\ transport.commands = 1
    /\ transport.finishes = 1
    /\ done.calls = 1
    /\ transport.result = "error"

\* C3 (as claimed): whenever more than one action option is given, the
\* selector exits the process and no request is ever submitted.
C3_Claim_ManyOptionsRejected ==
    Cardinality(given) > 1 =>
        /\ enabled.calls > 0 => exited
        /\ transport.commands = 0

\* C4 (as claimed): at finalization every reference acquired by run has been
\* released exactly once, and no reference that run did not acquire has been
\* released.
C4_Claim_ReferencesBalanced ==
    done.calls > 0 =>
        /\ refs.acquired["device"] = 1
        /\ refs.acquired["token"] = (IF cancellableArg # NULL THEN 1 ELSE 0)
        /\ \A o \in Objects : refs.released[o] = refs.acquired[o]

\* C5: when the action is write or update and the payload does not have the
\* required number of fields (2, 3), run submits no request, registers no
\* callback and finalizes once with status FALSE, the device reference and
\* the token reference it took released.
C5_BadPayloadFinalizesWithoutRequest ==
    (/\ RunCalled
     /\ \/ Selected("phonebook-write") /\ FieldCount(Deref(phonebook_write_str)) # 2
        \/ Selected("phonebook-entry-update") /\ FieldCount(Deref(phonebook_entry_update_str)) # 3)
    =>
        /\ transport.commands = 0
        /\ transport.pending = "none"
        /\ transport.submitted = <<>>
        /\ done = [calls |-> 1, status |-> FALSE]
        /\ ctx.mem = "freed"
        /\ refs.released["device"] = 1
        /\ cancellableArg # NULL => refs.released["token"] = 1

C5_Witness_TooManyFields ==
    /\ RunCalled
    /\ Selected("phonebook-entry-update")
    /\ FieldCount(Deref(phonebook_entry_update_str)) = 4
    /\ done.calls = 1

\* C6: the request submitted is the one the mapping table gives for the
\* selected action, with timeout 10 and the cancellable of the context.
C6_Table ==
    CASE Selected("phonebook-query-configuration") ->
           [new |-> "mbim_message_phonebook_configuration_query_new"]
      [] Selected("phonebook-read") ->
           [new |-> "mbim_message_phonebook_read_query_new",
            flag |-> "MBIM_PHONEBOOK_FLAG_INDEX", index |-> phonebook_read_index]
      [] Selected("phonebook-read-all") ->
           [new |-> "mbim_message_phonebook_read_query_new",
            flag |-> "MBIM_PHONEBOOK_FLAG_ALL", index |-> 0]
      [] Selected("phonebook-delete") ->
           [new |-> "mbim_message_phonebook_delete_set_new",
            flag |-> "MBIM_PHONEBOOK_FLAG_INDEX", index |-> phonebook_delete_index]
      [] Selected("phonebook-delete-all") ->
           [new |-> "mbim_message_phonebook_delete_set_new",
            flag |-> "MBIM_PHONEBOOK_FLAG_ALL", index |-> 0]
      [] Selected("phonebook-write") ->
           [new |-> "mbim_message_phonebook_write_set_new",
            flag |-> "MBIM_PHONEBOOK_WRITE_FLAG_SAVE_UNUSED", index |-> 0,
            number |-> Ptr(Field(Deref(phonebook_write_str), 2)),
            name |-> Ptr(Field(Deref(phonebook_write_str), 1))]
      [] Selected("phonebook-entry-update") ->
           [new |-> "mbim_message_phonebook_write_set_new",
            flag |-> "MBIM_PHONEBOOK_WRITE_FLAG_SAVE_INDEX",
            index |-> atoi(Field(Deref(phonebook_entry_update_str), 3)),
            number |-> Ptr(Field(Deref(phonebook_entry_update_str), 2)),
            name |-> Ptr(Field(Deref(phonebook_entry_update_str), 1))]

C6_RequestFollowsTable ==
    transport.commands > 0 =>
        /\ Len(transport.submitted) = 1
        /\ transport.submitted[1].message = C6_Table
        /\ transport.submitted[1].timeout = 10
        /\ transport.submitted[1].cancellable = ctx.cancellable
        /\ cancellableArg # NULL => transport.submitted[1].cancellable = cancellableArg
        /\ transport.submitted[1].device = ctx.device

C6_Witness_WriteSubmitted ==
    /\ transport.commands = 1
    /\ Selected("phonebook-write")
    /\ transport.submitted[1].message.name = Ptr(<<"a">>)
    /\ transport.submitted[1].message.number = Ptr(<<"1">>)

\* C7: phonebook_write_input_parse (N, str) succeeds exactly when str has N
\* comma-separated fields; with fewer it prints the missing-arguments error,
\* with more the too-many-arguments error; on success name, number and index
\* are fields 1, 2 and 3 of str, untrimmed, the index NULL when N = 2.
C7_ParseExactFieldCount ==
    parse.pc = "returned" =>
        LET n == parse.n_expected
            str == parse.str
            out == parse.out
        IN  /\ out.ok <=> FieldCount(str) = n
            /\ FieldCount(str) < n =>
                   out.printed = "error: couldn't parse input string, missing arguments"
            /\ FieldCount(str) > n =>
                   out.printed = "error: couldn't parse input string, too many arguments"
            /\ out.ok =>
                   /\ out.name = Ptr(Field(str, 1))
                   /\ out.number = Ptr(Field(str, 2))
                   /\ out.index_str = IF n = 3 THEN Ptr(Field(str, 3)) ELSE NULL

C7_Witness_ThreeFieldsParsed ==
    /\ parse.pc = "returned"
    /\ parse.n_expected = 3
    /\ parse.out.ok
    /\ parse.out.name = Ptr(<<"a">>)
    /\ parse.out.number = Ptr(<<>>)
    /\ parse.out.index_str = Ptr(<<"1">>)

\* C8: the selector counts the actions at most once per process; every later
\* call returns what the first call returned and takes no other step (it
\* neither prints the too-many-actions error nor exits).
C8_CountedOnce ==
    /\ enabled.evaluations <= 1
    /\ enabled.calls >= 2 => (enabled.last = enabled.first /\ ~exited)

C8_Witness_SecondCall ==
    /\ enabled.calls >= 2
    /\ enabled.evaluations = 1
    /\ enabled.last = TRUE

\* C9 (as claimed): the selector returns FALSE exactly when no action option
\* was given and TRUE exactly when one was given, whatever its argument.
C9_Claim_ReturnsWhetherOneGiven ==
    (enabled.calls > 0 /\ ~exited) =>
        /\ enabled.last = FALSE <=> given = {}
        /\ enabled.last = TRUE <=> Cardinality(given) = 1

\* C10 (as claimed): when mbimcli_async_operation_done is called, the request
\* and every response this module owned have been unref'd.
C10_Claim_MessagesReleased ==
    done.calls > 0 =>
        /\ msgs.request # "owned"
        /\ msgs.response # "owned"

\* C11: given that the transport invokes the callback of every submitted
\* request, every run that was started eventually reaches Finalized:
\* mbimcli_async_operation_done is eventually called.
C11_RunEventuallyFinalized ==
    RunCalled ~> (done.calls = 1)

C11_Witness_FinalizedByCallback ==
    /\ RunCalled
    /\ transport.finishes = 1
    /\ transport.result = "response"
    /\ done.calls = 1

\* the events of the trace that are not output of a formatter
Steps ==
    { "request_new", "mbim_device_command", "request_unref",
      "mbim_device_command_finish", "response_unref", "context_free",
      "mbimcli_async_operation_done", "g_warn_if_reached",
      "stderr: error: too many phonebook actions requested",
      "stderr: error: couldn't parse input string, too many arguments",
      "stderr: error: couldn't parse input string, missing arguments",
      "stderr: error: operation failed",
      "stderr: error: couldn't parse response message" }

Positions(event) == { i \in DOMAIN trace : trace[i] = event }

SuccessOutput == { i \in DOMAIN trace : trace[i] \notin Steps }

\* C12: the request is submitted before its completion is consumed, the
\* success output comes after the completion and before finalization, and
\* finalization comes last; a run that finalizes with failure printed no
\* success output.
C12_EventOrder ==
    /\ \A f \in Positions("mbim_device_command_finish") :
           \E c \in Positions("mbim_device_command") : c < f
    /\ \A o \in SuccessOutput :
           /\ \E f \in Positions("mbim_device_command_finish") : f < o
           /\ \A d \in Positions("mbimcli_async_operation_done") : o < d
           /\ transport.parsed = "ok"
    /\ \A d \in Positions("mbimcli_async_operation_done") :
           /\ d = Len(trace)
           /\ \A c \in Positions("mbim_device_command") : c < d
           /\ \A f \in Positions("mbim_device_command_finish") : f < d
    /\ (done.calls > 0 /\ ~done.status) => SuccessOutput = {}

C12_Witness_OutputThenDone ==
    /\ SuccessOutput # {}
    /\ Positions("mbim_device_command") # {}
    /\ Positions("mbim_device_command_finish") # {}
    /\ done = [calls |-> 1, status |-> TRUE]

\* C13: the callback registered for the request, and the parser applied to
\* its response, are those of the selected action.
C13_CallbackOf ==
    CASE Selected("phonebook-query-configuration") -> "query_phonebook_configuration_ready"
      [] Selected("phonebook-read") \/ Selected("phonebook-read-all") -> "query_phonebook_read_ready"
      [] Selected("phonebook-delete") \/ Selected("phonebook-delete-all") -> "set_phonebook_delete_ready"
      [] Selected("phonebook-write") \/ Selected("phonebook-entry-update") -> "set_phonebook_write_ready"

C13_ParserOf ==
    CASE Selected("phonebook-query-configuration") ->
           "mbim_message_phonebook_configuration_response_parse"
      [] Selected("phonebook-read") \/ Selected("phonebook-read-all") ->
           "mbim_message_phonebook_read_response_parse"
      [] Selected("phonebook-delete") \/ Selected("phonebook-delete-all") ->
           "mbim_message_phonebook_delete_response_parse"
      [] Selected("phonebook-write") \/ Selected("phonebook-entry-update") ->
           "mbim_message_phonebook_write_response_parse"

C13_ParserOfSelectedAction ==
    transport.commands > 0 =>
        /\ transport.submitted[1].callback = C13_CallbackOf
        /\ transport.pending \in { "none", C13_CallbackOf }
        /\ transport.parser \in { "none", C13_ParserOf }
        /\ transport.result = "response" => transport.parser = C13_ParserOf

C13_Witness_DeleteAllDecoded ==
    /\ Selected("phonebook-delete-all")
    /\ transport.result = "response"
    /\ transport.parser = "mbim_message_phonebook_delete_response_parse"

\* C14: on a transport error the callback prints the transport error, calls
\* neither the response parser nor a formatter and finalizes with FALSE; a
\* run that submitted its request is finalized by its callback and by
\* nothing else.
C14_TransportErrorPath ==
    /\ transport.result = "error" =>
           /\ transport.parser = "none"
           /\ transport.parsed = "none"
           /\ SuccessOutput = {}
           /\ Positions("stderr: error: operation failed") # {}
           /\ Positions("stderr: error: couldn't parse response message") = {}
           /\ done = [calls |-> 1, status |-> FALSE]
           /\ msgs.response = "none"
    /\ (transport.commands > 0 /\ done.calls > 0) => transport.finishes = 1

C14_Witness_TransportError ==
    /\ transport.result = "error"
    /\ Selected("phonebook-query-configuration")
    /\ done.calls = 1

\* C15: for a read response that parsed with entries e[1..n], the callback
\* prints the entry count n and then exactly n entry records, the k-th being
\* that of e[k]: none skipped, duplicated or reordered, none when n = 0.
C15_EntriesPrintedInOrder ==
    (transport.parser = "mbim_message_phonebook_read_response_parse" /\ transport.parsed = "ok") =>
        LET e == transport.entries
            n == Len(e)
            heading == Positions("stdout: Successfully read phonebook entry/entries")
        IN  /\ Cardinality(heading) = 1
            /\ Cardinality(SuccessOutput) = n + 2
            /\ \A h \in heading :
                   /\ trace[h + 1] = "stdout: Phonebook entries count: " \o ToString(n)
                   /\ \A k \in 1 .. n :
                          trace[h + 1 + k] =
                              "stdout: Entry index : " \o ToString(e[k].entry_index) \o
                              " Number: " \o e[k].number \o " Name: " \o e[k].name
                   /\ trace[h + 2 + n] = "response_unref"

C15_Witness_TwoEntriesPrinted ==
    /\ transport.parsed = "ok"
    /\ transport.entries = << [entry_index |-> 1, number |-> "555-1000", name |-> "Alice"],
                              [entry_index |-> 2, number |-> "555-2000", name |-> "Bob"] >>
    /\ Positions("stdout: Entry index : 2 Number: 555-2000 Name: Bob") # {}
    /\ done.calls = 1

\* a string atoi finds no number in: after blanks and a sign, no digit
NonNumeric(str) ==
    LET s == SkipSpace(str)
        t == IF s # <<>> /\ Head(s) \in {"-", "+"} THEN Tail(s) ELSE s
    IN  t = <<>> \/ DigitValue(Head(t)) < 0

\* C16: an update payload of three fields whose index field is not numeric
\* is not an input error: run submits the write request with SAVE_INDEX and
\* index 0 and the run goes on through the completion callback.
C16_NonNumericIndexIsZero ==
    (/\ RunCalled
     /\ Selected("phonebook-entry-update")
     /\ FieldCount(Deref(phonebook_entry_update_str)) = 3
     /\ NonNumeric(Field(Deref(phonebook_entry_update_str), 3)))
    =>
        /\ transport.commands = 1
        /\ transport.submitted[1].message =
               [new |-> "mbim_message_phonebook_write_set_new",
                flag |-> "MBIM_PHONEBOOK_WRITE_FLAG_SAVE_INDEX",
                index |-> 0,
                number |-> Ptr(Field(Deref(phonebook_entry_update_str), 2)),
                name |-> Ptr(Field(Deref(phonebook_entry_update_str), 1))]
        /\ transport.submitted[1].callback = "set_phonebook_write_ready"
        /\ Positions("stderr: error: couldn't parse input string, too many arguments") = {}
        /\ Positions("stderr: error: couldn't parse input string, missing arguments") = {}
        /\ transport.pending = "set_phonebook_write_ready" \/ transport.finishes = 1
        /\ done.calls > 0 => transport.finishes = 1

C16_Witness_LetterIndexSubmitted ==
    /\ RunCalled
    /\ phonebook_entry_update_str = Ptr(<<"a", ",", "1", ",", "a">>)
    /\ transport.commands = 1
    /\ transport.submitted[1].message.index = 0
    /\ done = [calls |-> 1, status |-> TRUE]

\* C17: the selector returns TRUE exactly when one branch condition of run
\* holds, so a run called after it returned TRUE enters a branch: it never
\* reaches g_warn_if_reached with the context allocated, nothing submitted
\* and finalization never signalled.
C17_SelectorAgreesWithRun ==
    /\ (enabled.calls > 0 /\ ~exited) =>
           (enabled.last <=> Cardinality({ o \in OptionNames : OptionSet(o) }) = 1)
    /\ RunCalled =>
           /\ \E o \in OptionNames : Selected(o)
           /\ Positions("g_warn_if_reached") = {}
           /\ transport.pending # "none" \/ done.calls = 1

C17_Witness_DeleteAllEntered ==
    /\ RunCalled
    /\ Selected("phonebook-delete-all")
    /\ enabled.last = TRUE
    /\ transport.commands = 1

\* C18: in every finalization the references of the context are released and
\* the context freed before mbimcli_async_operation_done is signalled, and
\* once shutdown has freed the context nothing else happens: no use of the
\* context, no call of the transport.
C18_FreedBeforeDone ==
    /\ \A d \in Positions("mbimcli_async_operation_done") :
           \E f \in Positions("context_free") : f < d
    /\ \A f \in Positions("context_free") :
           \A i \in DOMAIN trace : i > f => trace[i] = "mbimcli_async_operation_done"
    /\ done.calls > 0 =>
           /\ ctx.mem = "freed"
           /\ refs.released["device"] = 1
           /\ cancellableArg # NULL => refs.released["token"] = 1
           /\ transport.pending = "none"

C18_Witness_FreedThenDone ==
    /\ done.calls = 1
    /\ ctx.mem = "freed"
    /\ transport.finishes = 1
    /\ cancellableArg # NULL

=============================================================================
